---- MODULE Spec2Model ----
(***************************************************************************)
(* Model of the NanoEngineBase frame scheduler and button queries of the   *)
(* ssd1306 library (nano engine core).                                     *)
(*                                                                         *)
(* The engine keeps its configuration in static members.  The model has    *)
(* one action per member function; the per-frame hook m_loop is user code  *)
(* that runs inside nextFrame(), so nextFrame() is modelled in two steps   *)
(* (the due check that enters the hook, and the return from the hook) with *)
(* pc = "hook" in between, where the hook may query the buttons and time   *)
(* may pass.                                                               *)
(*                                                                         *)
(* millis() and m_lastFrameTs are uint32_t.  A 32-bit value is kept as a   *)
(* pair of 16-bit halves [hi, lo] so that the arithmetic modulo 2^32 of    *)
(* the source is computed exactly.                                         *)
(***************************************************************************)
EXTENDS Integers, Sequences, FiniteSets

VARIABLES
    clock,              \* the value millis() returns now (uint32_t)
    ticks,              \* number of delays taken so far (bounds the run)
    m_frameDurationMs,  \* uint8_t NanoEngineBase::m_frameDurationMs
    m_fps,              \* uint8_t NanoEngineBase::m_fps
    m_lastFrameTs,      \* uint32_t NanoEngineBase::m_lastFrameTs
    m_onDraw,           \* TNanoEngineOnDraw NanoEngineBase::m_onDraw
    m_onButtons,        \* TNanoEngineGetButtons NanoEngineBase::m_onButtons
    m_loop,             \* TLoopCallback NanoEngineBase::m_loop
    s_zkeypadPin,       \* uint8_t NanoEngineBase::s_zkeypadPin
    started,            \* begin() has been called
    pc,                 \* "idle", or "hook" while m_loop() runs inside nextFrame()
    halted,             \* the program crashed (call through a null pointer)
    lastOp,             \* the member function called last
    frame,              \* what the last nextFrame() call read and decided
    query,              \* what the last pressed()/notPressed() call read and returned
    events,             \* callbacks invoked by the current/last top-level call, in order
    elapsed,            \* true time passed since m_lastFrameTs was written
    analog,             \* the level analogRead(pin) returns now, for each pin
    dirty,              \* the tiles whose dirty flag is set
    drawn,              \* the tiles the last frame pass redrew, in order
    lcd,                \* the ST7735 interface: geometry, rotation, session, window
    wcall,              \* what the last call on the ST7735 interface did
    sketch,             \* position of the example sketch in setup()/loop()
    bus                 \* what the sketch's drawing calls sent to the display

vars == <<clock, ticks, m_frameDurationMs, m_fps, m_lastFrameTs, m_onDraw,
          m_onButtons, m_loop, s_zkeypadPin, started, pc, halted, lastOp,
          frame, query, events, elapsed, analog, dirty, drawn, lcd, wcall,
          sketch, bus>>

engine == <<m_frameDurationMs, m_fps, m_lastFrameTs, m_onDraw, m_onButtons,
            m_loop, s_zkeypadPin>>

tiles == <<dirty, drawn>>

\* the displays and the pins, which no member of NanoEngineBase touches
devices == <<analog, lcd, wcall, sketch, bus>>

(***************************************************************************)
(* Bounds of the model.                                                    *)
(***************************************************************************)
MaxTicks == 3           \* delays per run
MaxHookQueries == 1     \* button queries made by one run of the hook
WrapLead == 16          \* the long delay stops this many ms before 2^32
NumTiles == 2           \* tiles of the surface
MaxWrites == 2          \* data bytes written into one window

(***************************************************************************)
(* Fixed-width arithmetic.                                                 *)
(***************************************************************************)
W8 == 2^8
W16 == 2^16

U32(h, l) == [hi |-> h, lo |-> l]

Add32(a, b) ==
    LET lo == a.lo + b.lo
    IN  [hi |-> (a.hi + b.hi + (lo \div W16)) % W16, lo |-> lo % W16]

Sub32(a, b) ==
    LET borrow == IF a.lo < b.lo THEN 1 ELSE 0
    IN  [hi |-> (a.hi - b.hi - borrow + 2 * W16) % W16,
         lo |-> (a.lo - b.lo + W16) % W16]

\* a < b as unsigned 32-bit values
Lt32(a, b) == a.hi < b.hi \/ (a.hi = b.hi /\ a.lo < b.lo)

\* a + b does not fit in 32 bits
Carry32(a, b) == a.hi + b.hi + ((a.lo + b.lo) \div W16) >= W16

\* (uint32_t)x >= d for a uint8_t d promoted to 32 bits
Ge32(x, d) == x.hi > 0 \/ x.lo >= d

RECURSIVE BitAnd(_, _)
BitAnd(a, b) ==
    IF a = 0 \/ b = 0 THEN 0
    ELSE (a % 2) * (b % 2) + 2 * BitAnd(a \div 2, b \div 2)

NULL == "nullptr"

(***************************************************************************)
(* Program constants.                                                      *)
(***************************************************************************)
ENGINE_DEFAULT_FPS == 30

\* logical button bits (nano engine core header)
BUTTON_NONE == 0
BUTTON_DOWN == 1
BUTTON_LEFT == 2
BUTTON_UP == 4
BUTTON_RIGHT == 8
BUTTON_A == 16
BUTTON_B == 32

(***************************************************************************)
(* Inputs of the environment.                                              *)
(***************************************************************************)
\* delay(ms) values; the last one is a long sleep that brings millis() to
\* WrapLead ms before it wraps around
DelaySteps == {U32(0, 1), U32(0, 32), U32(W16 - 1, W16 - WrapLead)}

FpsInputs == {1, 30, 255}    \* arguments given to setFrameRate
FpsRange == 1 .. W8 - 1      \* every non-zero uint8_t frame rate
LoopCallbacks == {"onLoop"}             \* hooks the application installs
DrawCallbacks == {"onDraw"}             \* draw callbacks the application installs
AnalogPins == {0, 1}                    \* arguments given to connectZKeypad
AnalogReadings == {0, 99, 100, 199, 200, 399, 400, 599, 600, 799, 800, 1023}
PinReadings == {255, 239, 191, 15, 0}   \* values read from PINF / PINE / PINB
Uint8 == 0 .. W8 - 1
QueryMasks == {BUTTON_A + BUTTON_B}     \* arguments given to pressed/notPressed
QuerySamples == {BUTTON_NONE, BUTTON_A, BUTTON_A + BUTTON_B}
KeypadIdle == 1023                      \* level of the keypad pin with no key down
AnalogLevels == 0 .. KeypadIdle         \* levels analogRead can return
PinLevels == {99, 800}                  \* a key held down on the pin, or none

(***************************************************************************)
(* Pure functions of the source.                                           *)
(***************************************************************************)
\* faulty variant of FrameDurationOf: the duration is kept in hundredths of a
\* second
FrameDurationCenti(fps) == (100 \div fps) % W8

\* m_frameDurationMs = 1000/fps; the int quotient is stored in a uint8_t
FrameDurationOf(fps) == (1000 \div fps) % W8

\* faulty variants of NeedUpdate: a strict comparison; the operands of the
\* subtraction swapped
NeedUpdateStrict(now, last, duration) == Ge32(Sub32(now, last), duration + 1)

NeedUpdateSwapped(now, last, duration) == Ge32(Sub32(last, now), duration)

\* faulty variant of NeedUpdate: the deadline is compared with the clock
\* directly, millis() >= m_lastFrameTs + m_frameDurationMs
NeedUpdateDeadline(now, last, duration) == ~Lt32(now, Add32(last, U32(0, duration)))

\* (uint32_t)(millis() - m_lastFrameTs) >= m_frameDurationMs
NeedUpdate(now, last, duration) == Ge32(Sub32(now, last), duration)

\* faulty variant of PressedResult: any bit of the mask is enough
PressedResultAny(sample, buttons) == BitAnd(sample, buttons) # 0

\* (m_onButtons() & buttons) == buttons, given the sample m_onButtons() returned
PressedResult(sample, buttons) == BitAnd(sample, buttons) = buttons

\* faulty variant of NotPressedResult: the plain negation of pressed
NotPressedResultNegation(sample, buttons) == BitAnd(sample, buttons) # buttons

\* (m_onButtons() & buttons) == 0
NotPressedResult(sample, buttons) == BitAnd(sample, buttons) = 0

\* faulty variant of zkeypadButtons: the thresholds belong to the lower band
zkeypadButtonsInclusive(buttonValue) ==
    IF buttonValue <= 100 THEN BUTTON_RIGHT
    ELSE IF buttonValue <= 200 THEN BUTTON_UP
    ELSE IF buttonValue <= 400 THEN BUTTON_DOWN
    ELSE IF buttonValue <= 600 THEN BUTTON_LEFT
    ELSE IF buttonValue <= 800 THEN BUTTON_A
    ELSE BUTTON_NONE

zkeypadButtons(buttonValue) ==
    IF buttonValue < 100 THEN BUTTON_RIGHT
    ELSE IF buttonValue < 200 THEN BUTTON_UP
    ELSE IF buttonValue < 400 THEN BUTTON_DOWN
    ELSE IF buttonValue < 600 THEN BUTTON_LEFT
    ELSE IF buttonValue < 800 THEN BUTTON_A
    ELSE BUTTON_NONE

\* atmega32u4 is TRUE for a build with __AVR_ATmega32U4__ defined
arduboyButtons(atmega32u4, pinf, pine, pinb) ==
    IF atmega32u4
    THEN LET dirs == BitAnd(W8 - 1 - pinf, 240) \div 16
             a == BitAnd(W8 - 1 - pine, 64) \div 4
             b == (BitAnd(W8 - 1 - pinb, 16) * 2) % W8
         IN  dirs + a + b    \* the three fields occupy disjoint bits
    ELSE 0

ZKeypadReadings == {zkeypadButtons(v) : v \in AnalogReadings}

ArduboyReadings ==
    {arduboyButtons(u, f, e, b) :
        u \in BOOLEAN, f \in PinReadings, e \in PinReadings, b \in PinReadings}

\* the values the installed input source can return when it is called
SourceReadings(source) ==
    CASE source = "custom" -> Uint8
      [] source = "zkeypad" -> ZKeypadReadings
      [] source = "arduboy" -> ArduboyReadings
      [] OTHER -> {}

\* analogRead(pin): the level on the pin now
analogRead(pin) == analog[pin]

\* the values the installed input source can return now, the levels on the
\* analog pins being what they are: zkeypadButtons() reads s_zkeypadPin
ReadingsNow(source) ==
    IF source = "zkeypad"
    THEN {zkeypadButtons(analogRead(s_zkeypadPin))}
    ELSE SourceReadings(source) \cap QuerySamples

\* faulty variants of CallsLoop: the null check dropped; the due check dropped
CallsLoopUnchecked(needUpdate, loop) == needUpdate

CallsLoopAlways(needUpdate, loop) == loop # NULL

\* if (needUpdate && m_loop) m_loop();
CallsLoop(needUpdate, loop) == needUpdate /\ loop # NULL

\* records of what a call read and returned, kept for the properties
NoFrame == [ts |-> U32(0, 0), last |-> U32(0, 0), due |-> FALSE]
NoQuery == [op |-> "none", source |-> NULL, mask |-> 0, sample |-> 0, ret |-> FALSE]

\* the ST7735 interface before a display is set up, and no call made on it
LcdOff == [width |-> 0, height |-> 0, m_rotation |-> 0, sessions |-> 0,
           x |-> 0, y |-> 0, rx |-> 0, cursor |-> 0]

NoCall == [op |-> "none", x |-> 0, y |-> 0, w |-> 0, ok |-> FALSE,
           ret |-> "void", sent |-> <<>>]

\* the sketch before setup()
SketchOff == [stmt |-> "off", k |-> 0, width |-> 0, height |-> 0]

\* the true time passed since the frame timestamp was written: ms modulo 2^32,
\* and whether 2^32 ms or more have passed
NoElapsed == [ovf |-> FALSE, ms |-> U32(0, 0)]

Later(e, ms) == [ovf |-> e.ovf \/ Carry32(e.ms, ms), ms |-> Add32(e.ms, ms)]

\* the tiles of the surface, numbered in raster order
Tiles == 1 .. NumTiles

RECURSIVE RasterOrder(_)
RasterOrder(S) ==
    IF S = {} THEN <<>>
    ELSE LET t == CHOOSE t \in S : \A u \in S : t <= u
         IN  <<t>> \o RasterOrder(S \ {t})

(***************************************************************************)
(* Initial state: the static members as the definitions initialise them.   *)
(***************************************************************************)
InitEngine ==
    /\ clock = U32(0, 0)
    /\ ticks = 0
    /\ m_frameDurationMs = 1000 \div ENGINE_DEFAULT_FPS
    /\ m_fps = ENGINE_DEFAULT_FPS
    /\ m_lastFrameTs = U32(0, 0)
    /\ m_onDraw = NULL
    /\ m_onButtons = NULL
    /\ m_loop = NULL
    /\ s_zkeypadPin = 0
    /\ started = FALSE
    /\ pc = "idle"
    /\ halted = FALSE
    /\ lastOp = "none"
    /\ frame = NoFrame
    /\ query = NoQuery
    /\ events = <<>>
    /\ elapsed = NoElapsed

NoTiles == dirty = {} /\ drawn = <<>>

NoLcd == lcd = LcdOff /\ wcall = NoCall

NoSketch == sketch = SketchOff /\ bus = <<>>

Init ==
    /\ InitEngine
    /\ analog = [p \in AnalogPins |-> KeypadIdle]
    /\ NoTiles /\ NoLcd /\ NoSketch

(***************************************************************************)
(* The environment: time passes (delay() in the sketch, or the hook taking *)
(* time).                                                                  *)
(***************************************************************************)
Delay(ms) ==
    /\ ~halted
    /\ ticks < MaxTicks
    /\ clock' = Add32(clock, ms)
    /\ ticks' = ticks + 1
    /\ elapsed' = Later(elapsed, ms)
    /\ UNCHANGED <<engine, started, pc, halted, lastOp, frame, query, events>>
    /\ UNCHANGED <<tiles, devices>>

(***************************************************************************)
(* NanoEngineBase member functions.                                        *)
(***************************************************************************)
begin ==
    /\ ~halted /\ pc = "idle"
    /\ m_lastFrameTs' = clock
    /\ started' = TRUE
    /\ lastOp' = "begin"
    /\ frame' = NoFrame /\ query' = NoQuery /\ events' = <<>>
    /\ UNCHANGED <<clock, ticks, m_frameDurationMs, m_fps, m_onDraw, m_onButtons,
                   m_loop, s_zkeypadPin, pc, halted>>
    /\ elapsed' = NoElapsed
    /\ UNCHANGED <<tiles, devices>>

\* faulty variant of setFrameRate: the frame timing restarts when the rate changes
setFrameRateRestart(fps) ==
    /\ ~halted /\ pc = "idle"
    /\ m_fps' = fps
    /\ m_frameDurationMs' = FrameDurationOf(fps)
    /\ m_lastFrameTs' = clock
    /\ lastOp' = "setFrameRate"
    /\ frame' = NoFrame /\ query' = NoQuery /\ events' = <<>>
    /\ UNCHANGED <<clock, ticks, m_onDraw, m_onButtons, m_loop, s_zkeypadPin,
                   started, pc, halted>>
    /\ elapsed' = NoElapsed
    /\ UNCHANGED <<tiles, devices>>

setFrameRate(fps) ==
    /\ ~halted /\ pc = "idle"
    /\ m_fps' = fps
    /\ m_frameDurationMs' = FrameDurationOf(fps)
    /\ lastOp' = "setFrameRate"
    /\ frame' = NoFrame /\ query' = NoQuery /\ events' = <<>>
    /\ UNCHANGED <<clock, ticks, m_lastFrameTs, m_onDraw, m_onButtons, m_loop,
                   s_zkeypadPin, started, pc, halted>>
    /\ UNCHANGED <<elapsed, tiles, devices>>

\* faulty variant of nextFrame: a due check commits the frame timestamp itself
nextFrameStamping ==
    /\ ~halted /\ pc = "idle"
    /\ LET needUpdate == NeedUpdate(clock, m_lastFrameTs, m_frameDurationMs)
       IN  /\ frame' = [ts |-> clock, last |-> m_lastFrameTs, due |-> needUpdate]
           /\ m_lastFrameTs' = IF needUpdate THEN clock ELSE m_lastFrameTs
           /\ IF CallsLoop(needUpdate, m_loop)
              THEN pc' = "hook" /\ events' = <<m_loop>>
              ELSE pc' = "idle" /\ events' = <<>>
    /\ lastOp' = "nextFrame"
    /\ query' = NoQuery
    /\ UNCHANGED <<clock, ticks, m_frameDurationMs, m_fps, m_onDraw, m_onButtons,
                   m_loop, s_zkeypadPin, started, halted>>
    /\ elapsed' = (IF NeedUpdate(clock, m_lastFrameTs, m_frameDurationMs)
                   THEN NoElapsed ELSE elapsed)
    /\ UNCHANGED <<tiles, devices>>

\* nextFrame() up to the point where it either returns or calls m_loop()
nextFrame ==
    /\ ~halted /\ pc = "idle"
    /\ LET needUpdate == NeedUpdate(clock, m_lastFrameTs, m_frameDurationMs)
       IN  /\ frame' = [ts |-> clock, last |-> m_lastFrameTs, due |-> needUpdate]
           /\ IF CallsLoop(needUpdate, m_loop)
              THEN pc' = "hook" /\ events' = <<m_loop>>
              ELSE pc' = "idle" /\ events' = <<>>
    /\ lastOp' = "nextFrame"
    /\ query' = NoQuery
    /\ UNCHANGED <<clock, ticks, engine, started, halted>>
    /\ UNCHANGED <<elapsed, tiles, devices>>

\* m_loop() returns, and nextFrame() returns needUpdate
loopReturn ==
    /\ ~halted /\ pc = "hook"
    /\ pc' = "idle"
    /\ UNCHANGED <<clock, ticks, engine, started, halted, lastOp, frame, query, events>>
    /\ UNCHANGED <<elapsed, tiles, devices>>

\* pressed()/notPressed(): call m_onButtons(), which returns `sample`, and
\* compare.  Calling through a null m_onButtons is undefined behaviour: the
\* program crashes, or the call returns some value.
ButtonQuery(op, buttons, sample, result) ==
    /\ ~halted
    /\ pc = "hook" => Len(events) <= MaxHookQueries
    /\ LET seen == IF pc = "hook" THEN events ELSE <<>>
       IN  IF m_onButtons = NULL
           THEN /\ sample = 0
                /\ \E outcome \in {"crash", "true", "false"} :
                      /\ halted' = (outcome = "crash")
                      /\ query' = [op |-> op, source |-> NULL, mask |-> buttons,
                                   sample |-> 0, ret |-> (outcome = "true")]
                /\ events' = Append(seen, "call of nullptr")
           ELSE /\ sample \in SourceReadings(m_onButtons)
                /\ halted' = halted
                /\ query' = [op |-> op, source |-> m_onButtons, mask |-> buttons,
                             sample |-> sample, ret |-> result]
                /\ events' = Append(seen, m_onButtons)
    /\ lastOp' = IF pc = "hook" THEN lastOp ELSE op
    /\ frame' = IF pc = "hook" THEN frame ELSE NoFrame
    /\ UNCHANGED <<clock, ticks, engine, started, pc>>
    /\ UNCHANGED <<elapsed, tiles, devices>>

\* faulty variant of pressed: buttons seen by the previous query stay latched
pressedLatched(buttons, sample) ==
    ButtonQuery("pressed", buttons, sample,
                PressedResult(sample + query.sample - BitAnd(sample, query.sample),
                              buttons))

pressed(buttons, sample) ==
    ButtonQuery("pressed", buttons, sample, PressedResult(sample, buttons))

notPressed(buttons, sample) ==
    ButtonQuery("notPressed", buttons, sample, NotPressedResult(sample, buttons))

\* faulty variant of InstallButtons: a source already installed is kept
InstallButtonsOnce(op, source, pin) ==
    /\ ~halted /\ pc = "idle"
    /\ m_onButtons' = (IF m_onButtons = NULL THEN source ELSE m_onButtons)
    /\ s_zkeypadPin' = pin
    /\ lastOp' = op
    /\ frame' = NoFrame /\ query' = NoQuery /\ events' = <<>>
    /\ UNCHANGED <<clock, ticks, m_frameDurationMs, m_fps, m_lastFrameTs, m_onDraw,
                   m_loop, started, pc, halted>>
    /\ UNCHANGED <<elapsed, tiles, devices>>

InstallButtons(op, source, pin) ==
    /\ ~halted /\ pc = "idle"
    /\ m_onButtons' = source
    /\ s_zkeypadPin' = pin
    /\ lastOp' = op
    /\ frame' = NoFrame /\ query' = NoQuery /\ events' = <<>>
    /\ UNCHANGED <<clock, ticks, m_frameDurationMs, m_fps, m_lastFrameTs, m_onDraw,
                   m_loop, started, pc, halted>>
    /\ UNCHANGED <<elapsed, tiles, devices>>

connectCustomKeys(handler) == InstallButtons("connectCustomKeys", handler, s_zkeypadPin)

connectArduboyKeys == InstallButtons("connectArduboyKeys", "arduboy", s_zkeypadPin)

connectZKeypad(analogPin) == InstallButtons("connectZKeypad", "zkeypad", analogPin)

(***************************************************************************)
(* Members defined in the engine's header: the callback setters and the    *)
(* commit of a frame pass.                                                 *)
(***************************************************************************)
loopCallback(callback) ==
    /\ ~halted /\ pc = "idle"
    /\ m_loop' = callback
    /\ lastOp' = "loopCallback"
    /\ frame' = NoFrame /\ query' = NoQuery /\ events' = <<>>
    /\ UNCHANGED <<clock, ticks, m_frameDurationMs, m_fps, m_lastFrameTs, m_onDraw,
                   m_onButtons, s_zkeypadPin, started, pc, halted>>
    /\ UNCHANGED <<elapsed, tiles, devices>>

drawCallback(callback) ==
    /\ ~halted /\ pc = "idle"
    /\ m_onDraw' = callback
    /\ lastOp' = "drawCallback"
    /\ frame' = NoFrame /\ query' = NoQuery /\ events' = <<>>
    /\ UNCHANGED <<clock, ticks, m_frameDurationMs, m_fps, m_lastFrameTs, m_loop,
                   m_onButtons, s_zkeypadPin, started, pc, halted>>
    /\ UNCHANGED <<elapsed, tiles, devices>>

\* the application marks a tile dirty, from the hook or between frames
refresh(tile) ==
    /\ ~halted
    /\ dirty' = dirty \cup {tile}
    /\ IF pc = "hook"
       THEN UNCHANGED <<lastOp, frame, query, events>>
       ELSE /\ lastOp' = "refresh"
            /\ frame' = NoFrame /\ query' = NoQuery /\ events' = <<>>
    /\ UNCHANGED <<clock, ticks, engine, started, pc, halted, elapsed, drawn, devices>>

\* faulty variant of display: the flags of the redrawn tiles stay set
displayKeepsFlags ==
    /\ ~halted /\ pc = "idle"
    /\ drawn' = IF m_onDraw # NULL THEN RasterOrder(dirty) ELSE <<>>
    /\ events' = [i \in 1 .. Len(drawn') |-> m_onDraw]
    /\ dirty' = dirty
    /\ m_lastFrameTs' = clock
    /\ elapsed' = NoElapsed
    /\ lastOp' = "display"
    /\ frame' = NoFrame /\ query' = NoQuery
    /\ UNCHANGED <<clock, ticks, m_frameDurationMs, m_fps, m_onDraw, m_onButtons,
                   m_loop, s_zkeypadPin, started, pc, halted>>
    /\ UNCHANGED devices

\* the frame pass: every dirty tile is redrawn through m_onDraw, in raster
\* order, and its flag cleared; then the frame is committed, which updates the
\* frame timestamp
display ==
    /\ ~halted /\ pc = "idle"
    /\ drawn' = IF m_onDraw # NULL THEN RasterOrder(dirty) ELSE <<>>
    /\ events' = [i \in 1 .. Len(drawn') |-> m_onDraw]
    /\ dirty' = {}
    /\ m_lastFrameTs' = clock
    /\ elapsed' = NoElapsed
    /\ lastOp' = "display"
    /\ frame' = NoFrame /\ query' = NoQuery
    /\ UNCHANGED <<clock, ticks, m_frameDurationMs, m_fps, m_onDraw, m_onButtons,
                   m_loop, s_zkeypadPin, started, pc, halted>>
    /\ UNCHANGED devices

Next ==
    \/ \E ms \in DelaySteps : Delay(ms)
    \/ begin
    \/ \E fps \in FpsInputs : setFrameRate(fps)
    \/ nextFrame
    \/ loopReturn
    \/ \E m \in QueryMasks, s \in QuerySamples : pressed(m, s)
    \/ \E m \in QueryMasks, s \in QuerySamples : notPressed(m, s)
    \/ connectCustomKeys("custom")
    \/ connectArduboyKeys
    \/ \E p \in AnalogPins : connectZKeypad(p)
    \/ \E cb \in LoopCallbacks : loopCallback(cb)
    \/ \E cb \in DrawCallbacks : drawCallback(cb)
    \/ display

Spec == Init /\ [][Next]_vars

(***************************************************************************)
(* The button queries as pure functions: an input source is installed and  *)
(* one query is made, for every 8-bit mask and every 8-bit sample.         *)
(***************************************************************************)
NextQuery ==
    \/ connectCustomKeys("custom")
    \/ query.op = "none" /\ \E m \in Uint8, s \in Uint8 : pressed(m, s)
    \/ query.op = "none" /\ \E m \in Uint8, s \in Uint8 : notPressed(m, s)

SpecQuery == Init /\ [][NextQuery]_vars

(***************************************************************************)
(* The Z-keypad decoder as a pure function: the keypad pin holds any level *)
(* of the ADC range, the keypad is connected and a query reads it.         *)
(***************************************************************************)
InitKeypad ==
    /\ InitEngine
    /\ \E v \in AnalogLevels :
          analog = [p \in AnalogPins |-> IF p = 0 THEN v ELSE KeypadIdle]
    /\ NoTiles /\ NoLcd /\ NoSketch

NextKeypad ==
    \/ \E p \in AnalogPins : connectZKeypad(p)
    \/ \E m \in QueryMasks, s \in ReadingsNow(m_onButtons) :
          m_onButtons # NULL /\ pressed(m, s)
    \/ \E m \in QueryMasks, s \in ReadingsNow(m_onButtons) :
          m_onButtons # NULL /\ notPressed(m, s)

SpecKeypad == InitKeypad /\ [][NextKeypad]_vars

(***************************************************************************)
(* The input sources: any sequence of installations and queries, with a    *)
(* level on each analog pin, while the frame timing is set up and time     *)
(* passes.                                                                 *)
(***************************************************************************)
InitInput ==
    /\ InitEngine
    /\ analog \in [AnalogPins -> PinLevels]
    /\ NoTiles /\ NoLcd /\ NoSketch

NextInput ==
    \/ \E ms \in DelaySteps : Delay(ms)
    \/ begin
    \/ \E fps \in FpsInputs : setFrameRate(fps)
    \/ \E cb \in LoopCallbacks : loopCallback(cb)
    \/ connectCustomKeys("custom")
    \/ connectArduboyKeys
    \/ \E p \in AnalogPins : connectZKeypad(p)
    \/ \E m \in QueryMasks, s \in ReadingsNow(m_onButtons) :
          m_onButtons # NULL /\ pressed(m, s)
    \/ \E m \in QueryMasks, s \in ReadingsNow(m_onButtons) :
          m_onButtons # NULL /\ notPressed(m, s)

SpecInput == InitInput /\ [][NextInput]_vars

(***************************************************************************)
(* The frame rate over its whole range: setFrameRate is called with every  *)
(* non-zero uint8_t rate, the frame timestamp is taken and the due check   *)
(* is made, in the same millisecond or a few milliseconds later.           *)
(***************************************************************************)
NextRate ==
    \/ \E ms \in DelaySteps : ms = U32(0, 1) /\ Delay(ms)
    \/ begin
    \/ \E fps \in FpsRange : setFrameRate(fps)
    \/ nextFrame

SpecRate == Init /\ [][NextRate]_vars

(***************************************************************************)
(* The redraw scheduler with its tiles: the hook of a due frame marks      *)
(* tiles dirty and the frame pass redraws them.  The surface starts with   *)
(* no tile dirty, or with every tile dirty (a full first redraw).          *)
(***************************************************************************)
InitTiles ==
    /\ InitEngine
    /\ analog = [p \in AnalogPins |-> KeypadIdle]
    /\ dirty \in {{}, Tiles} /\ drawn = <<>>
    /\ NoLcd /\ NoSketch

NextTiles ==
    \/ \E ms \in DelaySteps : ms.hi = 0 /\ Delay(ms)
    \/ begin
    \/ \E cb \in LoopCallbacks : loopCallback(cb)
    \/ \E cb \in DrawCallbacks : drawCallback(cb)
    \/ nextFrame
    \/ \E t \in Tiles : pc = "hook" /\ refresh(t)
    \/ loopReturn
    \/ display

SpecTiles == InitTiles /\ [][NextTiles]_vars

(***************************************************************************)
(* The ST7735 interface (InterfaceST7735).  The header declares the        *)
(* operations, all of them returning void, and documents them; their       *)
(* bodies are in lcd_st7735.inl.  lcd holds the geometry of the display    *)
(* (m_base), m_rotation, the number of bus sessions begun and not closed,  *)
(* the window registers of the controller (left column x, top row y, right *)
(* column rx) and the number of data bytes written into the window.        *)
(***************************************************************************)
\* DisplayST7735_128x128x16 and DisplayST7735_128x160x16
Geometries == {[width |-> 128, height |-> 128], [width |-> 128, height |-> 160]}

LcdOf(g) == [LcdOff EXCEPT !.width = g.width, !.height = g.height]

Rotations == 0 .. 3                     \* arguments given to setRotation
DataBytes == {0, 255}                   \* bytes written into a window

\* arguments given to startBlock: inside the display, on its edge, outside
BlockColumns == {0, 5, lcd.width - 1, lcd.width}
BlockRows == {0, lcd.height}
BlockWidths == {0, 3, lcd.width}

\* what a call puts on the bus: the kind of transfer and its operands
Item(kind, a, b, c) == <<kind, a, b, c>>

Kind(item) == item[1]

Operand(item) == item[2]

BlockItems(x, y, rx) == <<Item("select", 0, 0, 0), Item("window", x, y, rx)>>

\* every operation of the interface is declared void
WCall(op, x, y, w, ok, sent) ==
    [op |-> op, x |-> x, y |-> y, w |-> w, ok |-> ok, ret |-> "void", sent |-> sent]

\* faulty variant of RightColumn: width 0 is taken as a width like any other
RightColumnLiteral(x, w, width) == x + w - 1

\* "Width can be specified as 0, thus the library will set the right boundary
\* to region of RAM block to the right column of the display"
RightColumn(x, w, width) == IF w = 0 THEN width - 1 ELSE x + w - 1

\* the window is clipped to the geometry
Clip(column, width) == IF column < width THEN column ELSE width - 1

outsideLcd == <<clock, ticks, engine, started, pc, halted, lastOp, frame, query,
                events, elapsed, tiles, analog, sketch, bus>>

\* faulty variant of startBlock: a window is opened over the one that is open
startBlockReopens(x, y, w) ==
    LET accept == x < lcd.width /\ y < lcd.height
        rx == Clip(RightColumn(x, w, lcd.width), lcd.width)
    IN  /\ lcd.width > 0
        /\ lcd.sessions < 2
        /\ lcd' = IF accept
                  THEN [lcd EXCEPT !.sessions = @ + 1, !.x = x, !.y = y, !.rx = rx,
                                   !.cursor = 0]
                  ELSE lcd
        /\ wcall' = WCall("startBlock", x, y, w, accept,
                          IF accept THEN BlockItems(x, y, rx) ELSE <<>>)
        /\ UNCHANGED outsideLcd

\* startBlock(x, y, w): sets the window and begins a bus session that it
\* leaves open.  It is rejected, with nothing sent, while a window is open
\* and when the corner (x, y) lies outside the display.
startBlock(x, y, w) ==
    LET accept == lcd.sessions = 0 /\ x < lcd.width /\ y < lcd.height
        rx == Clip(RightColumn(x, w, lcd.width), lcd.width)
    IN  /\ lcd.width > 0
        /\ lcd' = IF accept
                  THEN [lcd EXCEPT !.sessions = 1, !.x = x, !.y = y, !.rx = rx,
                                   !.cursor = 0]
                  ELSE lcd
        /\ wcall' = WCall("startBlock", x, y, w, accept,
                          IF accept THEN BlockItems(x, y, rx) ELSE <<>>)
        /\ UNCHANGED outsideLcd

\* faulty variant of nextBlock: the cursor moves to the next page, as on a
\* page-addressed controller
nextBlockPaged ==
    /\ lcd.width > 0
    /\ lcd' = IF lcd.sessions > 0 THEN [lcd EXCEPT !.y = (@ + 8) % W8] ELSE lcd
    /\ wcall' = WCall("nextBlock", 0, 0, 0, lcd.sessions > 0,
                      IF lcd.sessions > 0
                      THEN <<Item("window", lcd.x, (lcd.y + 8) % W8, lcd.rx)>>
                      ELSE <<>>)
    /\ UNCHANGED outsideLcd

\* nextBlock(): "For ST7735 it does nothing"
nextBlock ==
    /\ lcd.width > 0
    /\ lcd' = lcd
    /\ wcall' = WCall("nextBlock", 0, 0, 0, lcd.sessions > 0, <<>>)
    /\ UNCHANGED outsideLcd

\* a data byte sent into the open window
write(byte) ==
    /\ lcd.width > 0
    /\ lcd.cursor < MaxWrites
    /\ lcd' = IF lcd.sessions > 0 THEN [lcd EXCEPT !.cursor = @ + 1] ELSE lcd
    /\ wcall' = WCall("write", 0, 0, 0, lcd.sessions > 0,
                      IF lcd.sessions > 0 THEN <<Item("data", byte, 0, 0)>> ELSE <<>>)
    /\ UNCHANGED outsideLcd

\* endBlock(): "Closes data send operation to lcd display"
endBlock ==
    /\ lcd.width > 0
    /\ lcd' = IF lcd.sessions > 0 THEN [lcd EXCEPT !.sessions = @ - 1] ELSE lcd
    /\ wcall' = WCall("endBlock", 0, 0, 0, lcd.sessions > 0,
                      IF lcd.sessions > 0 THEN <<Item("release", 0, 0, 0)>> ELSE <<>>)
    /\ UNCHANGED outsideLcd

\* setRotation(rotation): 0 - normal, 1 - 90 CW, 2 - 180 CW, 3 - 270 CW; a
\* quarter turn swaps width and height.  Not accepted while a window is open.
setRotation(rotation) ==
    LET accept == lcd.sessions = 0
        turn == (rotation + lcd.m_rotation) % 2 = 1
    IN  /\ lcd.width > 0
        /\ lcd' = IF accept
                  THEN [lcd EXCEPT !.m_rotation = rotation,
                                   !.width = IF turn THEN lcd.height ELSE lcd.width,
                                   !.height = IF turn THEN lcd.width ELSE lcd.height]
                  ELSE lcd
        /\ wcall' = WCall("setRotation", 0, 0, 0, accept,
                          IF accept
                          THEN <<Item("select", 0, 0, 0), Item("rotation", rotation, 0, 0),
                                 Item("release", 0, 0, 0)>>
                          ELSE <<>>)
        /\ UNCHANGED outsideLcd

InitLcd ==
    /\ InitEngine
    /\ analog = [p \in AnalogPins |-> KeypadIdle]
    /\ NoTiles /\ NoSketch
    /\ \E g \in Geometries : lcd = LcdOf(g)
    /\ wcall = NoCall

NextLcd ==
    \/ \E x \in BlockColumns, y \in BlockRows, w \in BlockWidths : startBlock(x, y, w)
    \/ nextBlock
    \/ \E b \in DataBytes : write(b)
    \/ endBlock
    \/ \E r \in Rotations : setRotation(r)

SpecLcd == InitLcd /\ [][NextLcd]_vars

(***************************************************************************)
(* startBlock as a function of its arguments: from every column of the     *)
(* display and no window open, with the width given as 0 and as the       *)
(* distance to the right edge.                                             *)
(***************************************************************************)
NextBlock ==
    \/ \E x \in 0 .. lcd.width - 1, y \in {0, lcd.height - 1} :
          \E w \in {0, lcd.width - x} : lcd.sessions = 0 /\ startBlock(x, y, w)
    \/ nextBlock
    \/ endBlock

SpecBlock == InitLcd /\ [][NextBlock]_vars

(***************************************************************************)
(* The example sketch: setup() initialises a 128x64 page-addressed display *)
(* and loop() clears the screen and draws the Owl bitmap.  The library     *)
(* functions the sketch calls are not part of the sketch; each is a        *)
(* sequence of calls on the windowed-write interface, and the sketch       *)
(* advances by one such call per step.  The run is followed from setup()   *)
(* to the first delay(3000) of loop().                                     *)
(***************************************************************************)
\* const uint8_t Owl [] PROGMEM
Owl ==
    <<0, 0, 0, 0, 0, 0, 0, 0, 0, 0, 0, 0, 0, 0, 0, 0,
      0, 0, 0, 0, 0, 0, 0, 0, 0, 0, 0, 0, 0, 0, 0, 0,
      0, 0, 0, 0, 0, 0, 0, 0, 0, 0, 0, 0, 0, 0, 0, 0,
      0, 0, 0, 0, 0, 0, 0, 0, 0, 0, 0, 0, 0, 0, 0, 0,
      0, 0, 0, 0, 0, 0, 0, 0, 0, 0, 0, 0, 0, 0, 0, 0,
      0, 0, 0, 0, 0, 0, 192, 128, 0, 0, 0, 0, 0, 0, 0, 6,
      10, 5, 13, 1, 1, 3, 135, 254, 254, 252, 248, 240, 0, 0, 0, 0,
      0, 0, 0, 0, 0, 0, 0, 0, 0, 0, 0, 0, 0, 0, 0, 0,
      0, 0, 0, 0, 0, 0, 0, 0, 0, 0, 0, 0, 0, 0, 0, 0,
      0, 0, 0, 0, 0, 0, 0, 0, 0, 0, 0, 0, 0, 0, 0, 0,
      0, 0, 0, 128, 128, 128, 0, 0, 0, 0, 0, 0, 0, 0, 0, 0,
      0, 0, 0, 0, 0, 128, 192, 192, 0, 0, 0, 0, 0, 0, 0, 0,
      0, 0, 0, 0, 0, 0, 0, 0, 0, 0, 0, 0, 0, 0, 0, 0,
      0, 0, 0, 0, 0, 0, 0, 0, 0, 0, 0, 0, 0, 0, 6, 14,
      8, 12, 12, 12, 14, 15, 15, 7, 7, 3, 3, 0, 0, 0, 0, 0,
      0, 0, 0, 0, 0, 0, 0, 0, 0, 0, 0, 0, 0, 0, 0, 0,
      0, 0, 0, 0, 0, 0, 0, 0, 0, 0, 0, 0, 0, 0, 0, 0,
      0, 0, 0, 0, 0, 0, 0, 0, 0, 0, 0, 0, 0, 128, 224, 48,
      152, 222, 230, 231, 247, 215, 214, 86, 86, 215, 215, 95, 223, 63, 63, 47,
      159, 215, 223, 111, 107, 107, 127, 247, 243, 243, 224, 236, 152, 48, 224, 128,
      0, 0, 0, 0, 0, 0, 0, 0, 0, 0, 128, 128, 96, 112, 112, 96,
      64, 96, 224, 224, 224, 224, 224, 224, 224, 192, 192, 224, 240, 224, 64, 0,
      0, 0, 0, 0, 0, 0, 0, 0, 0, 0, 0, 0, 0, 0, 0, 0,
      0, 0, 0, 0, 0, 0, 0, 0, 0, 0, 0, 0, 0, 0, 0, 0,
      0, 0, 0, 0, 0, 0, 0, 0, 0, 0, 0, 0, 0, 0, 0, 0,
      0, 0, 0, 0, 0, 0, 0, 0, 0, 0, 0, 0, 0, 3, 251, 224,
      223, 177, 239, 95, 185, 176, 160, 230, 110, 46, 182, 185, 159, 175, 160, 167,
      191, 153, 182, 182, 166, 166, 176, 176, 169, 223, 207, 240, 127, 119, 253, 1,
      128, 128, 128, 0, 0, 0, 0, 8, 238, 179, 125, 190, 127, 199, 135, 183,
      183, 183, 205, 125, 131, 147, 251, 205, 181, 53, 165, 135, 206, 254, 28, 249,
      195, 28, 16, 0, 0, 0, 0, 0, 0, 0, 0, 0, 0, 0, 0, 0,
      0, 0, 0, 0, 0, 0, 0, 0, 0, 0, 0, 0, 0, 0, 0, 0,
      0, 0, 0, 0, 0, 0, 0, 0, 0, 0, 0, 0, 0, 0, 0, 0,
      0, 0, 0, 0, 0, 0, 0, 0, 0, 0, 0, 15, 31, 63, 60, 115,
      239, 158, 126, 253, 253, 237, 173, 253, 221, 255, 191, 255, 95, 223, 239, 255,
      255, 255, 111, 255, 223, 239, 253, 221, 253, 188, 254, 126, 191, 239, 123, 62,
      31, 15, 7, 0, 0, 14, 31, 60, 119, 95, 61, 125, 251, 251, 122, 250,
      254, 254, 254, 254, 255, 255, 126, 254, 191, 253, 245, 245, 246, 250, 251, 223,
      103, 120, 60, 28, 0, 0, 0, 0, 0, 0, 0, 0, 128, 128, 0, 0,
      96, 96, 0, 0, 0, 0, 0, 0, 0, 0, 0, 0, 0, 0, 0, 0,
      0, 0, 0, 192, 128, 0, 0, 128, 128, 0, 0, 0, 0, 0, 0, 0,
      0, 64, 0, 16, 56, 128, 0, 0, 128, 192, 192, 0, 0, 0, 0, 0,
      0, 0, 1, 0, 0, 129, 131, 131, 135, 231, 239, 239, 235, 255, 247, 223,
      250, 254, 255, 235, 238, 238, 231, 103, 99, 97, 96, 96, 96, 224, 224, 224,
      96, 96, 96, 96, 96, 96, 112, 112, 112, 112, 112, 112, 112, 113, 115, 123,
      127, 127, 127, 127, 127, 126, 127, 119, 118, 115, 115, 113, 113, 112, 113, 112,
      112, 112, 112, 112, 240, 240, 240, 240, 240, 240, 240, 241, 241, 241, 224, 224,
      232, 236, 238, 231, 226, 228, 232, 208, 224, 224, 192, 192, 192, 192, 192, 192,
      16, 16, 16, 16, 31, 19, 161, 173, 200, 73, 71, 66, 64, 192, 220, 120,
      96, 96, 32, 33, 49, 48, 17, 26, 27, 11, 13, 12, 4, 6, 6, 6,
      3, 3, 3, 19, 49, 113, 113, 97, 129, 129, 65, 32, 38, 12, 28, 48,
      120, 0, 0, 132, 196, 132, 132, 12, 4, 2, 2, 1, 1, 7, 14, 14,
      0, 0, 0, 0, 0, 0, 0, 0, 0, 0, 0, 0, 0, 0, 0, 0,
      0, 0, 0, 0, 0, 0, 96, 224, 224, 192, 128, 0, 0, 0, 0, 0,
      0, 0, 0, 0, 0, 96, 224, 192, 192, 0, 0, 129, 129, 129, 65, 65,
      33, 33, 19, 19, 19, 3, 11, 11, 11, 15, 15, 7, 7, 7, 7, 7,
      0, 0, 0, 0, 0, 0, 3, 1, 1, 0, 0, 6, 7, 3, 3, 0,
      0, 0, 0, 0, 0, 0, 0, 0, 0, 0, 0, 8, 12, 64, 238, 121,
      53, 2, 8, 8, 4, 4, 2, 31, 61, 60, 0, 0, 0, 0, 0, 4,
      4, 36, 0, 13, 48, 49, 1, 3, 0, 0, 0, 0, 0, 0, 0, 0,
      0, 0, 0, 0, 0, 0, 0, 0, 0, 0, 130, 198, 198, 54, 104, 68,
      180, 160, 82, 98, 2, 2, 2, 0, 1, 3, 50, 122, 62, 26, 2, 2,
      2, 2, 2, 2, 2, 0, 29, 61, 29, 1, 1, 0, 0, 0, 0, 0,
      0, 0, 0, 0, 0, 0, 0, 0, 0, 0, 0, 0, 0, 0, 0, 0>>

PAGE == 8                               \* rows of one page of the controller

\* ssd1306_128x64_i2c_init()
OledGeometry == [width |-> 128, height |-> 64]

\* the arguments loop() gives to ssd1306_fillScreen and ssd1306_drawBitmap
FillData == 0
OwlBlit == [x |-> 0, y |-> 0, w |-> 128, h |-> 64]

\* faulty variant of PageBreak: the pages are streamed without any advance
PageBreakNone(p, pages) == <<>>

\* what is sent between page p and the next one
PageBreak(p, pages) == IF p < pages THEN <<Item("nextPage", 0, 0, 0)>> ELSE <<>>

\* the interface calls that stream pages p .. pages, each w bytes wide
RECURSIVE Pages(_, _, _, _)
Pages(bytes, p, pages, w) ==
    IF p > pages THEN <<>>
    ELSE [i \in 1 .. w |-> Item("data", bytes[(p - 1) * w + i], 0, 0)]
         \o PageBreak(p, pages) \o Pages(bytes, p + 1, pages, w)

\* one drawing operation: a window is opened, the pages are written, the
\* window is closed
Drawing(x, y, w, width, h, bytes) ==
    <<Item("startWindow", x, y, w)>>
    \o Pages(bytes, 1, h \div PAGE, width)
    \o <<Item("endWindow", 0, 0, 0)>>

\* ssd1306_fillScreen(0x00) and ssd1306_drawBitmap(0, 0, 128, 64, Owl) on
\* the display of the sketch
FillScreenCalls ==
    Drawing(0, 0, 0, OledGeometry.width, OledGeometry.height,
            [i \in 1 .. OledGeometry.width * (OledGeometry.height \div PAGE) |-> FillData])

DrawBitmapCalls == Drawing(OwlBlit.x, OwlBlit.y, OwlBlit.w, OwlBlit.w, OwlBlit.h, Owl)

outsideSketch == <<clock, ticks, engine, started, pc, halted, lastOp, frame, query,
                   events, elapsed, tiles, analog, lcd, wcall>>

setup ==
    /\ sketch.stmt = "off"
    /\ sketch' = [stmt |-> "fillScreen", k |-> 0,
                  width |-> OledGeometry.width, height |-> OledGeometry.height]
    /\ UNCHANGED <<bus, outsideSketch>>

\* the next interface call of the drawing operation `stmt`, whose calls are
\* `calls`; after the last one the sketch goes on to the statement `then`
DrawingStep(stmt, calls, then) ==
    /\ sketch.stmt = stmt
    /\ bus' = Append(bus, calls[sketch.k + 1])
    /\ sketch' = IF sketch.k + 1 = Len(calls)
                 THEN [sketch EXCEPT !.stmt = then, !.k = 0]
                 ELSE [sketch EXCEPT !.k = @ + 1]
    /\ UNCHANGED outsideSketch

ssd1306_fillScreen == DrawingStep("fillScreen", FillScreenCalls, "drawBitmap")

ssd1306_drawBitmap == DrawingStep("drawBitmap", DrawBitmapCalls, "delay")

NextSketch ==
    \/ setup
    \/ ssd1306_fillScreen
    \/ ssd1306_drawBitmap

SpecSketch == Init /\ [][NextSketch]_vars

(***************************************************************************)
(* Vocabulary of the properties.                                           *)
(***************************************************************************)
\* ts lies fewer than n ms after last on the 32-bit clock
Within(ts, last, n) == \E e \in 0 .. n - 1 : ts = Add32(last, U32(0, e))

\* number of entries of the sequence s that belong to the set S
RECURSIVE Count(_, _)
Count(s, S) ==
    IF s = <<>> THEN 0
    ELSE (IF Head(s) \in S THEN 1 ELSE 0) + Count(Tail(s), S)

\* a step that is a top-level call of the member function op
CallOf(op) == pc = "idle" /\ lastOp' = op /\ ticks' = ticks

\* nextFrame() has returned (it is not inside the hook)
Returned == lastOp = "nextFrame" /\ pc = "idle"

(***************************************************************************)
(* C1: nextFrame() reports a frame due if and only if the time elapsed     *)
(* since m_lastFrameTs is at least the frame duration: it reports not due  *)
(* exactly when the call time is m_lastFrameTs + e for some e below        *)
(* m_frameDurationMs.                                                      *)
(***************************************************************************)
C1_DueIffElapsed ==
    lastOp = "nextFrame" =>
        (frame.due <=> ~Within(frame.ts, m_lastFrameTs, m_frameDurationMs))

\* a call made exactly one frame duration after the timestamp reported due
C1_Witness ==
    /\ Returned /\ started /\ frame.due
    /\ m_frameDurationMs > 0
    /\ frame.ts = Add32(m_lastFrameTs, U32(0, m_frameDurationMs))

(***************************************************************************)
(* C2, as stated: at 30 fps after begin(), a nextFrame() call made once    *)
(* 40 ms have elapsed (here: 40 to 99 ms) reports due and sets             *)
(* m_lastFrameTs to the time of the call, and of two calls made within     *)
(* 10 ms of each other at most one reports due.                            *)
(***************************************************************************)
C2_Original ==
    [][/\ (started' /\ m_fps' = 30 /\ lastOp' = "nextFrame" /\ pc' = "idle"
              /\ ~Within(frame'.ts, frame'.last, 40)
              /\ Within(frame'.ts, frame'.last, 100))
          => frame'.due /\ m_lastFrameTs' = frame'.ts
       /\ (started /\ m_fps = 30 /\ Returned /\ frame.due /\ CallOf("nextFrame")
              /\ Within(frame'.ts, frame.ts, 11))
          => ~frame'.due]_vars

(***************************************************************************)
(* C2, amended: at 30 fps (33 ms) after begin(), a nextFrame() call made   *)
(* within 10 ms of the frame timestamp reports not due and runs no hook; a *)
(* call made 40 ms or more after it reports due and runs the installed     *)
(* hook exactly once; nextFrame() leaves m_lastFrameTs as it was.          *)
(***************************************************************************)
C2_Amended ==
    (started /\ m_fps = 30 /\ lastOp = "nextFrame") =>
        /\ m_frameDurationMs = 33
        /\ m_lastFrameTs = frame.last
        /\ Within(frame.ts, frame.last, 11) =>
              ~frame.due /\ events = <<>> /\ pc = "idle"
        /\ (~Within(frame.ts, frame.last, 40) /\ pc = "idle") =>
              /\ frame.due
              /\ Count(events, LoopCallbacks) = (IF m_loop = NULL THEN 0 ELSE 1)

\* begin(), more than 40 ms pass, nextFrame() reports due, the hook has run
\* once and returned, and the timestamp is still the one begin() set
C2_Witness ==
    /\ started /\ m_fps = 30 /\ Returned
    /\ ~Within(frame.ts, frame.last, 40)
    /\ frame.due /\ Count(events, LoopCallbacks) = 1
    /\ m_lastFrameTs # frame.ts

(***************************************************************************)
(* C3: the stored frame duration equals 1000 / fps (integer division) for  *)
(* the configured rate, and the rate is 30 fps / 33 ms before any call.    *)
(***************************************************************************)
C3_DurationIsQuotient ==
    /\ m_fps \in 1 .. 255
    /\ m_frameDurationMs = 1000 \div m_fps
    /\ lastOp = "none" => m_fps = 30 /\ m_frameDurationMs = 33

(***************************************************************************)
(* C4: pressed(m) is true iff every bit of m is set in the sample, and     *)
(* notPressed(m) is true iff no bit of m is set in the sample.             *)
(***************************************************************************)
Bit(x, i) == (x \div 2^i) % 2

Covers(s, m) == \A i \in 0 .. 7 : Bit(m, i) = 1 => Bit(s, i) = 1

Disjoint(s, m) == \A i \in 0 .. 7 : ~(Bit(m, i) = 1 /\ Bit(s, i) = 1)

C4_QueryMeaning ==
    query.source # NULL =>
        /\ query.op = "pressed" => (query.ret <=> Covers(query.sample, query.mask))
        /\ query.op = "notPressed" => (query.ret <=> Disjoint(query.sample, query.mask))

\* a two-bit mask found pressed in a sample that has a third bit set
C4_Witness ==
    /\ query.op = "pressed" /\ query.source # NULL /\ query.ret
    /\ query.mask = BUTTON_A + BUTTON_B
    /\ query.sample = BUTTON_A + BUTTON_B + BUTTON_UP

(***************************************************************************)
(* C5: a nextFrame() call that finds the frame due invokes the installed   *)
(* hook exactly once, first, before it returns and before any tile is      *)
(* drawn or m_lastFrameTs is written; with no hook installed nothing is    *)
(* invoked and the call still reports due; a call that is not due invokes  *)
(* no hook.                                                                *)
(***************************************************************************)
C5_HookRunsFirstOnce ==
    /\ pc = "hook" =>
          /\ lastOp = "nextFrame" /\ frame.due /\ m_loop # NULL
          /\ Head(events) = m_loop
    /\ lastOp = "nextFrame" =>
          /\ Count(events, LoopCallbacks \cup {NULL}) =
                (IF frame.due /\ m_loop # NULL THEN 1 ELSE 0)
          /\ Count(events, DrawCallbacks) = 0
          /\ m_lastFrameTs = frame.last
          /\ (m_loop = NULL) => events = <<>> /\ pc = "idle"

\* a due call whose hook ran, queried the buttons, and returned
C5_Witness ==
    /\ Returned /\ started /\ frame.due
    /\ Len(events) = 2 /\ Head(events) = m_loop /\ m_loop \in LoopCallbacks

(***************************************************************************)
(* C6: a nextFrame() call made before the deadline returns false at once   *)
(* and does nothing else: no hook, no draw callback, no input source is    *)
(* invoked, no time passes, and m_lastFrameTs, the frame duration, fps and *)
(* the installed callbacks are unchanged.                                  *)
(***************************************************************************)
C6_NotDueIsNoOp ==
    [][(CallOf("nextFrame") /\ ~frame'.due) =>
          /\ pc' = "idle" /\ events' = <<>> /\ ~halted'
          /\ UNCHANGED <<engine, clock, started>>]_vars

\* a not-due call with a hook, a draw callback and an input source installed
C6_Witness ==
    /\ Returned /\ started /\ ~frame.due /\ events = <<>>
    /\ m_loop # NULL /\ m_onDraw # NULL /\ m_onButtons # NULL
    /\ frame.ts # m_lastFrameTs

(***************************************************************************)
(* C7: begin() sets m_lastFrameTs to the current clock value; afterwards   *)
(* it is written once by each committed frame pass, to the clock value at  *)
(* the commit, and by nothing else.                                        *)
(***************************************************************************)
C7_FrameClockLifecycle ==
    [][/\ m_lastFrameTs' # m_lastFrameTs => (CallOf("begin") \/ CallOf("display"))
       /\ CallOf("begin") => m_lastFrameTs' = clock /\ clock' = clock
       /\ CallOf("display") => m_lastFrameTs' = clock /\ clock' = clock]_vars

\* begin(), later a due nextFrame() and a commit at a later clock value
C7_Witness ==
    /\ started /\ lastOp = "display" /\ m_lastFrameTs = clock
    /\ ticks >= 2 /\ m_loop # NULL /\ m_onButtons # NULL

(***************************************************************************)
(* C8: setFrameRate() writes only fps and the frame duration; it leaves    *)
(* m_lastFrameTs, the hook, the draw callback and the input source         *)
(* unchanged and invokes no callback; the next nextFrame() measures the    *)
(* new duration against the unchanged m_lastFrameTs.                       *)
(***************************************************************************)
C8_RateChangeNotRetroactive ==
    [][/\ CallOf("setFrameRate") =>
             /\ UNCHANGED <<m_lastFrameTs, m_loop, m_onDraw, m_onButtons,
                            s_zkeypadPin, clock, started>>
             /\ events' = <<>> /\ pc' = "idle"
       /\ CallOf("nextFrame") =>
             /\ frame'.last = m_lastFrameTs
             /\ frame'.due <=> ~Within(clock, m_lastFrameTs, m_frameDurationMs)]_vars

\* after the rate was raised to 255 fps a call is due that the default rate
\* would not yet have found due, measured from the timestamp begin() set
C8_Witness ==
    /\ started /\ Returned /\ m_fps = 255 /\ frame.due
    /\ Within(frame.ts, m_lastFrameTs, 33)

(***************************************************************************)
(* C9: with an input source installed, each pressed()/notPressed() call    *)
(* invokes that source exactly once, its result is decided by that sample  *)
(* and the mask alone, and it leaves the frame timing, the callbacks and   *)
(* the input source unchanged; nextFrame() takes no sample and its result  *)
(* is decided by the clock, m_lastFrameTs and the frame duration alone.    *)
(***************************************************************************)
QueryStep == query'.op # "none" /\ ticks' = ticks /\ pc' = pc /\ query' # query

ButtonSources == {"custom", "zkeypad", "arduboy"}

C9_SamplingIsPure ==
    [][/\ (QueryStep /\ m_onButtons # NULL) =>
             /\ events' = Append(IF pc = "hook" THEN events ELSE <<>>, m_onButtons)
             /\ query'.source = m_onButtons
             /\ query'.ret = (IF query'.op = "pressed"
                              THEN Covers(query'.sample, query'.mask)
                              ELSE Disjoint(query'.sample, query'.mask))
             /\ UNCHANGED <<engine, clock, started, halted>>
             /\ pc = "hook" => frame' = frame
       /\ CallOf("nextFrame") =>
             /\ Count(events', ButtonSources) = 0
             /\ frame'.due <=> ~Within(clock, m_lastFrameTs, m_frameDurationMs)]_vars

\* a query made inside the hook of a due frame found the mask pressed and left
\* the frame timestamp as it was
C9_Witness ==
    /\ pc = "hook" /\ frame.due /\ query.op = "pressed" /\ query.source # NULL
    /\ query.ret /\ m_lastFrameTs = frame.last

(***************************************************************************)
(* C10: pressed()/notPressed() may be called in every reachable state:     *)
(* the call completes and never invokes an input source that was not       *)
(* installed.                                                              *)
(***************************************************************************)
C10_QueryAlwaysSafe ==
    /\ ~halted
    /\ query.op # "none" => query.source # NULL

(***************************************************************************)
(* C11: pressed and notPressed are complementary but not negations of each *)
(* other.  On one sample and a non-empty mask they are never both true;    *)
(* for a single-bit mask exactly one of them is true; for a mask of two or *)
(* more bits of which the sample holds some but not all, both are false.   *)
(* The result of the query that was made is compared with the result the   *)
(* other query computes from the same sample.                              *)
(***************************************************************************)
BitsOf(m) == {i \in 0 .. 7 : Bit(m, i) = 1}

C11_Complementary ==
    query.source # NULL /\ query.mask # 0 =>
        LET s == query.sample
            m == query.mask
            p == IF query.op = "pressed" THEN query.ret ELSE PressedResult(s, m)
            n == IF query.op = "notPressed" THEN query.ret ELSE NotPressedResult(s, m)
            held == BitsOf(m) \cap BitsOf(s)
        IN  /\ ~(p /\ n)
            /\ Cardinality(BitsOf(m)) = 1 => (p # n)
            /\ Cardinality(BitsOf(m)) >= 2 /\ held # {} /\ held # BitsOf(m) =>
                   ~p /\ ~n

\* notPressed(A|B) answered false on a sample that holds A alone, on which
\* pressed(A|B) is false as well
C11_Witness ==
    /\ query.op = "notPressed" /\ query.source # NULL /\ ~query.ret
    /\ query.mask = BUTTON_A + BUTTON_B /\ query.sample = BUTTON_A
    /\ ~PressedResult(query.sample, query.mask)

(***************************************************************************)
(* C20: the due check is right across the wrap of the 32-bit clock.  When  *)
(* millis() has wrapped past m_lastFrameTs (the clock reads less than the  *)
(* timestamp) and less than 2^32 ms have truly passed since the timestamp  *)
(* was written, nextFrame() reports due exactly when the time truly passed *)
(* is at least the frame duration, and that time is the difference of the  *)
(* two values modulo 2^32.                                                 *)
(***************************************************************************)
C20_DueCheckAcrossWrap ==
    [][CallOf("nextFrame") /\ Lt32(clock, m_lastFrameTs) /\ ~elapsed.ovf =>
          /\ elapsed.ms = Sub32(clock, m_lastFrameTs)
          /\ frame'.due <=> (elapsed.ms.hi > 0 \/ elapsed.ms.lo >= m_frameDurationMs)]_vars

\* a frame found due fewer than 40 ms after a timestamp taken just before the
\* clock wrapped, by a call made after the wrap
C20_Witness ==
    /\ Returned /\ frame.due /\ Lt32(frame.ts, frame.last)
    /\ Within(frame.ts, frame.last, 40)
    /\ ~elapsed.ovf /\ elapsed.ms = Sub32(frame.ts, frame.last)

(***************************************************************************)
(* C18: zkeypadButtons maps a reading v of the keypad pin to one button:   *)
(* v < 100 RIGHT, 100 <= v < 200 UP, 200 <= v < 400 DOWN, 400 <= v < 600   *)
(* LEFT, 600 <= v < 800 A, and v >= 800 no button.  It never reports       *)
(* BUTTON_B and never two buttons at once.                                 *)
(***************************************************************************)
C18_KeypadBands ==
    query.source = "zkeypad" =>
        LET v == analog[s_zkeypadPin]
            b == query.sample
        IN  /\ v < 100 => b = BUTTON_RIGHT
            /\ 100 <= v /\ v < 200 => b = BUTTON_UP
            /\ 200 <= v /\ v < 400 => b = BUTTON_DOWN
            /\ 400 <= v /\ v < 600 => b = BUTTON_LEFT
            /\ 600 <= v /\ v < 800 => b = BUTTON_A
            /\ 800 <= v => b = BUTTON_NONE
            /\ BitAnd(b, BUTTON_B) = 0
            /\ Cardinality(BitsOf(b)) <= 1

\* a reading of exactly 600, the lowest level of the band of button A
C18_Witness ==
    /\ query.source = "zkeypad" /\ query.op = "pressed"
    /\ analog[s_zkeypadPin] = 600 /\ query.sample = BUTTON_A

(***************************************************************************)
(* C19: the input source is pluggable and the last installation wins.      *)
(* Each connect call makes its source the installed one (connectZKeypad    *)
(* with the pin it was given), nothing but a connect call changes the      *)
(* installed source or the pin, every query consults exactly the installed *)
(* source (the Z-keypad: the level on the pin given last), and installing  *)
(* a source leaves the frame timestamp, the frame duration, the fps and    *)
(* the hook as they were.                                                  *)
(***************************************************************************)
ConnectOps == {"connectCustomKeys", "connectArduboyKeys", "connectZKeypad"}

C19_LastInstallWins ==
    [][/\ CallOf("connectCustomKeys") => m_onButtons' = "custom"
       /\ CallOf("connectArduboyKeys") => m_onButtons' = "arduboy"
       /\ CallOf("connectZKeypad") => m_onButtons' = "zkeypad"
       /\ \A p \in AnalogPins : connectZKeypad(p) => s_zkeypadPin' = p
       /\ (\E op \in ConnectOps : CallOf(op)) =>
             UNCHANGED <<m_lastFrameTs, m_frameDurationMs, m_fps, m_loop, m_onDraw,
                         clock, started>>
       /\ (m_onButtons' # m_onButtons \/ s_zkeypadPin' # s_zkeypadPin) =>
             \E op \in ConnectOps : CallOf(op)
       /\ QueryStep =>
             /\ query'.source = m_onButtons
             /\ m_onButtons = "zkeypad" =>
                   query'.sample = zkeypadButtons(analog[s_zkeypadPin])]_vars

\* the keypad was installed on pin 1 after the engine was set up, and a query
\* read the key held down on pin 1, not the idle level of pin 0
C19_Witness ==
    /\ query.source = "zkeypad" /\ s_zkeypadPin = 1
    /\ analog[1] = 99 /\ analog[0] = 800 /\ query.sample = BUTTON_RIGHT
    /\ started /\ m_fps = 255 /\ m_loop # NULL /\ m_lastFrameTs # U32(0, 0)

(***************************************************************************)
(* C12: a tile marked dirty by the per-frame hook is redrawn exactly once  *)
(* in the frame pass (its draw callback is invoked once for it) and its    *)
(* dirty flag is false right after the pass, the first frame included; the *)
(* pass redraws nothing else, runs to completion and leaves the scheduler  *)
(* idle.  Tiles are marked dirty by the hook of a due frame only.          *)
(***************************************************************************)
Occurrences(s, t) == Cardinality({i \in 1 .. Len(s) : s[i] = t})

C12_DirtyTileRedrawnOnce ==
    [][/\ CallOf("display") =>
             /\ dirty' = {}
             /\ pc' = "idle"
             /\ m_onDraw # NULL =>
                   /\ \A t \in Tiles :
                         Occurrences(drawn', t) = (IF t \in dirty THEN 1 ELSE 0)
                   /\ Count(events', {m_onDraw}) = Cardinality(dirty)
                   /\ Len(events') = Cardinality(dirty)
       /\ ~(dirty' \subseteq dirty) =>
             pc = "hook" /\ pc' = "hook" /\ frame.due /\ lastOp = "nextFrame"]_vars

\* the first frame after begin(): the hook marked tile 2 alone, and the pass
\* redrew tile 2 alone and left no tile dirty
C12_Witness ==
    /\ lastOp = "display" /\ drawn = <<2>> /\ dirty = {}
    /\ events = <<m_onDraw>> /\ m_onDraw # NULL
    /\ started /\ m_lastFrameTs = clock /\ ticks <= 2

(***************************************************************************)
(* C14: at most one write window is open at any time.  startBlock opens a  *)
(* bus session that stays open until endBlock; a startBlock issued while a *)
(* window is open fails and alters neither the geometry nor the window     *)
(* registers; after endBlock no window is open, and a startBlock for any   *)
(* rectangle inside the display is accepted when no window is open.        *)
(***************************************************************************)
C14_OneOpenWindow ==
    [][/\ lcd'.sessions <= 1
       /\ wcall'.op = "startBlock" /\ lcd.sessions > 0 =>
             lcd' = lcd /\ ~wcall'.ok /\ wcall'.sent = <<>>
       /\ wcall'.op = "startBlock" /\ lcd.sessions = 0
             /\ wcall'.x < lcd.width /\ wcall'.y < lcd.height =>
             /\ wcall'.ok /\ lcd'.sessions = 1
             /\ lcd'.x = wcall'.x /\ lcd'.y = wcall'.y
       /\ lcd.sessions > 0 /\ lcd'.sessions = 0 => wcall'.op = "endBlock"
       /\ wcall'.op = "endBlock" => lcd'.sessions = 0]_vars

\* a startBlock for another rectangle inside the display was refused while
\* a window that holds data was open
C14_Witness ==
    /\ wcall.op = "startBlock" /\ ~wcall.ok /\ lcd.sessions = 1
    /\ wcall.x < lcd.width /\ wcall.y < lcd.height /\ wcall.x # lcd.x
    /\ lcd.cursor > 0

(***************************************************************************)
(* C15: from every column x of the display, startBlock(x, y, 0) opens the  *)
(* same window as startBlock(x, y, width - x): the right boundary is the   *)
(* last column of the display and the same bytes go on the bus.  The       *)
(* width is resolved when the window is opened; nextBlock does not         *)
(* re-derive it.                                                           *)
(***************************************************************************)
C15_ZeroWidthIsToRightEdge ==
    [][/\ wcall'.op = "startBlock" /\ wcall'.ok
             /\ wcall'.w \in {0, lcd.width - wcall'.x} =>
             /\ lcd'.x = wcall'.x /\ lcd'.y = wcall'.y
             /\ lcd'.rx = lcd.width - 1
             /\ wcall'.sent = BlockItems(wcall'.x, wcall'.y, lcd.width - 1)
       /\ wcall'.op = "nextBlock" =>
             lcd'.x = lcd.x /\ lcd'.rx = lcd.rx /\ lcd'.width = lcd.width]_vars

\* a window opened at column 100 with width 0, then nextBlock called: the
\* window still reaches the last column
C15_Witness ==
    /\ wcall.op = "nextBlock" /\ wcall.ok /\ lcd.sessions = 1
    /\ lcd.x = 100 /\ lcd.rx = lcd.width - 1

(***************************************************************************)
(* C16: every windowed-write operation makes its success or failure        *)
(* observable to the caller: a call that is rejected (made out of          *)
(* sequence, or for a window outside the display) returns a failure        *)
(* result, which a call that succeeds does not return, and puts nothing on *)
(* the bus.                                                                *)
(***************************************************************************)
C16_FailureObservable ==
    wcall.op \in {"startBlock", "nextBlock", "write", "endBlock"} =>
        /\ wcall.ok => wcall.ret # "failure"
        /\ ~wcall.ok => wcall.ret = "failure" /\ wcall.sent = <<>>

(***************************************************************************)
(* C17: nextBlock() of the ST7735 interface is a no-op.  It sends no       *)
(* command and no data and leaves the window, the write cursor, the        *)
(* session state and the rotation as they were, with a window open as      *)
(* well.                                                                   *)
(***************************************************************************)
C17_NextBlockIsNoOp ==
    [][wcall'.op = "nextBlock" => wcall'.sent = <<>> /\ lcd' = lcd]_vars

\* nextBlock called on an open window that holds data, on a rotated display
C17_Witness ==
    /\ wcall.op = "nextBlock" /\ wcall.ok /\ wcall.sent = <<>>
    /\ lcd.sessions = 1 /\ lcd.cursor > 0 /\ lcd.m_rotation = 1 /\ lcd.x = 5

(***************************************************************************)
(* C13: on the 128x64 display, fillScreen(0x00) followed by                *)
(* drawBitmap(0, 0, 128, 64, Owl) sends for the blit exactly one           *)
(* startWindow(0, 0, 128), the bytes of the bitmap in order as its data,   *)
(* a nextPage after each page of 128 bytes but the last and nothing else   *)
(* between the pages, and one endWindow; the window of the fill is closed  *)
(* before the window of the blit opens, and two windows are never open at  *)
(* once.                                                                   *)
(***************************************************************************)
Indices(kind) == {i \in 1 .. Len(bus) : Kind(bus[i]) = kind}

IsData(it) == Kind(it) = "data"

\* the last startWindow sent so far
LastStart ==
    CHOOSE i \in Indices("startWindow") : \A j \in Indices("startWindow") : j <= i

\* number of data bytes sent after the last startWindow and before item i
DataBefore(i) == Cardinality({j \in LastStart + 1 .. i - 1 : Kind(bus[j]) = "data"})

\* item i, sent after the startWindow of the blit, is what the blit may send
\* there: a page advance exactly after each full page of 128 bytes but the
\* last, the endWindow after the last page, a data byte anywhere else
BlitItemInPlace(i) ==
    LET n == DataBefore(i)
        pageFull == Kind(bus[i - 1]) = "data" /\ n % 128 = 0
    IN  /\ Kind(bus[i]) \in {"data", "nextPage", "endWindow"}
        /\ Kind(bus[i]) = "endWindow" <=> n = 128 * (64 \div 8)
        /\ Kind(bus[i]) = "nextPage" <=> pageFull /\ n < 128 * (64 \div 8)

C13_FillThenBlit ==
    LET starts == Cardinality(Indices("startWindow"))
        ends == Cardinality(Indices("endWindow"))
    IN  /\ starts - ends \in {0, 1}
        /\ starts <= 2
        /\ starts = 2 =>
              LET data == SelectSeq(SubSeq(bus, LastStart + 1, Len(bus)), IsData)
              IN  /\ bus[LastStart] = Item("startWindow", 0, 0, 128)
                  /\ Kind(bus[LastStart - 1]) = "endWindow"
                  /\ Len(data) <= Len(Owl)
                  /\ \A i \in 1 .. Len(data) : Operand(data[i]) = Owl[i]
                  /\ Len(bus) > LastStart => BlitItemInPlace(Len(bus))
        /\ sketch.stmt = "delay" =>
              /\ starts = 2 /\ ends = 2
              /\ Kind(bus[Len(bus)]) = "endWindow"
              /\ \A i \in LastStart + 1 .. Len(bus) : BlitItemInPlace(i)

\* the blit is complete: both windows are closed, and seven page advances
\* were sent for the fill and seven for the blit
C13_Witness ==
    /\ sketch.stmt = "delay"
    /\ Kind(bus[Len(bus)]) = "endWindow"
    /\ Cardinality(Indices("nextPage")) = 14
    /\ DataBefore(Len(bus)) = Len(Owl)

(***************************************************************************)
(* C21: in the initial state and after setFrameRate calls with any fps in  *)
(* 1..255 the stored 8-bit frame duration is at least 1 ms, and so a       *)
(* nextFrame() call made in the same millisecond as the frame timestamp    *)
(* (elapsed 0) never reports a frame as due.                               *)
(***************************************************************************)
C21_DurationAtLeastOne ==
    /\ m_fps \in 1 .. 255
    /\ m_frameDurationMs >= 1
    /\ lastOp = "nextFrame" /\ frame.ts = frame.last => ~frame.due

\* at 255 fps, the shortest duration, a check made in the millisecond of
\* begin() found no frame due
C21_Witness ==
    /\ lastOp = "nextFrame" /\ frame.ts = frame.last /\ ~frame.due
    /\ started /\ m_lastFrameTs = clock /\ ticks > 0
    /\ m_fps = 255 /\ m_frameDurationMs = 3

====
